---- MODULE Spec2Model ----
(***************************************************************************)
(* Model of the Assessments request handlers of src/index.py.              *)
(*                                                                         *)
(* State: the assessment collections ("{type}_db"), the grade collections  *)
(* ("{collection}_{type}_db"), and, for the request handled last, its      *)
(* input (req), its outcome (resp) and the collaborator calls it made, in  *)
(* order (calls).  Every handler is one atomic action in Spec and          *)
(* GradeSpec.  In CascadeSpec a delete request takes two steps, delete_one *)
(* and delete_many, and other requests run between them; deleting holds    *)
(* the position and the arguments of that request.                         *)
(*                                                                         *)
(* Python values: None is Null; a dict is a function on its keys; a list   *)
(* is a sequence.  Grade marks are tokens ("40", "75") so that they can be *)
(* compared with Null.                                                     *)
(***************************************************************************)
EXTENDS Integers, Sequences, FiniteSets, TLC

VARIABLES assessment_db, grade_db, req, resp, calls, deleting

vars == <<assessment_db, grade_db, req, resp, calls, deleting>>

--------------------------------------------------------------------------
(* Bounds of the model *)

\* at most this many grade documents are stored at once
MaxGrades == 3
\* the same, where requests interleave with the steps of a delete request
MaxCascadeGrades == 2

--------------------------------------------------------------------------
(* Values *)

Null == "null"

HTTP_400_BAD_REQUEST == 400
HTTP_404_NOT_FOUND == 404
HTTP_500_INTERNAL_SERVER_ERROR == 500

AssessmentTypes == {"quiz"}
Courses == {"c1", "c2"}

\* Identifier strings a caller can send.  "A1" is "a1" written in upper-case
\* hex digits; "zz" is not a valid ObjectId string.
IdStrings == {"a1", "A1", "a2", "zz"}

\* bson.ObjectId(s): the identifier a string denotes; str() of it is the
\* lower-case form.  An invalid string raises.
ObjectIdValid(s) == s \in {"a1", "A1", "a2", "q1", "Q1", "q2", "q9"}

ObjectId(s) ==
    CASE s = "A1" -> "a1"
      [] s = "Q1" -> "q1"
      [] OTHER -> s

\* the identifiers ObjectId() can generate for a new assessment
NewObjectIds == {"a1", "a2"}

\* dict.update / $set: the fields of upd overwrite those of old
DictUpdate(old, upd) ==
    [f \in DOMAIN old \cup DOMAIN upd |-> IF f \in DOMAIN upd THEN upd[f] ELSE old[f]]

\* dict without key k (pop / del)
DictWithout(d, k) == [f \in DOMAIN d \ {k} |-> d[f]]

RECURSIVE SetToSeq(_)
SetToSeq(S) ==
    IF S = {} THEN <<>>
    ELSE LET x == CHOOSE y \in S : TRUE IN <<x>> \o SetToSeq(S \ {x})

RECURSIVE Flatten(_)
Flatten(ss) == IF ss = <<>> THEN <<>> ELSE Head(ss) \o Flatten(Tail(ss))

--------------------------------------------------------------------------
(* Request payloads *)

Question(id, m) == [question_id |-> id, question_latex |-> "stub", marks |-> m]

Section(n, qs) == [section_name |-> n, description |-> "d", questions |-> qs]

\* The scalar fields of a payload vary together with v.
AssessmentPayload(v, course, questions) ==
    [ name        |-> IF v = 1 THEN "midterm" ELSE "final",
      course      |-> course,
      start_date  |-> [year |-> 2024, month |-> v],
      end_date    |-> [year |-> 2024, month |-> v + 1],
      total_time  |-> 30 * v,
      total_marks |-> 50 * v,
      lessons     |-> IF v = 1 THEN <<"l1">> ELSE <<"l1", "l2">>,
      questions   |-> questions ]

Assessments ==
    { AssessmentPayload(1, "c1", <<>>),
      AssessmentPayload(1, "c1", <<Section("A", <<Question("q1", 2)>>)>>),
      AssessmentPayload(2, "c2", <<Section("A", <<Question("q1", 2)>>),
                                   Section("B", <<Question("q2", 3), Question("q9", 1)>>)>>),
      AssessmentPayload(2, "c1", <<Section("A", <<Question("Q1", 4)>>)>>),
      AssessmentPayload(1, "c2", <<Section("A", <<Question("q2", 5)>>), Section("B", <<>>)>>) }

\* the one payload of the specification of the grade handlers
PlainAssessments == {AssessmentPayload(1, "c1", <<Section("A", <<Question("q1", 2)>>)>>)}

\* What the environment hands to one create or edit request: the reference
\* the renderer returns (or its failure) and the reading of the clock.
Environments ==
    { [question_paper |-> "doc1", utcnow |-> 1],
      [question_paper |-> "doc2", utcnow |-> 2],
      [question_paper |-> "raise", utcnow |-> 1] }

PlainEnvironments == {[question_paper |-> "doc1", utcnow |-> 1]}

--------------------------------------------------------------------------
(* Responses *)

Success(op, body) == [op |-> op, status |-> "success"] @@ body

HTTPException(op, code) == [op |-> op, status |-> "error", status_code |-> code]

\* without the `except HTTPException` clause the generic clause takes it
reraise_as_internal_error(op, code) == HTTPException(op, HTTP_500_INTERNAL_SERVER_ERROR)

\* an HTTPException raised inside a handler's try block: `except HTTPException
\* as http_e: raise http_e` hands it to the caller as it is
reraise(op, code) == HTTPException(op, code)

Outcome(r, c, adb, gdb) == [resp |-> r, calls |-> c, assessment_db |-> adb, grade_db |-> gdb]

--------------------------------------------------------------------------
(* Document store driver *)

AssessmentCollection(type) == type

\* insert_one: the document is added under its _id; returns the identifier
insert_one(coll, document) == (document["_id"] :> document) @@ coll

find_one(coll, id) == IF id \in DOMAIN coll THEN coll[id] ELSE Null

Found(coll, id) == id \in DOMAIN coll

--------------------------------------------------------------------------
(* create_assessment *)

\* the validation left out
question_list_unchecked(assessment) == FALSE

question_list_empty(assessment) == Len(assessment.questions) = 0

assessment_data(assessment, now) ==
    [ name        |-> assessment.name,
      course      |-> assessment.course,
      start_date  |-> assessment.start_date,
      end_date    |-> assessment.end_date,
      total_time  |-> assessment.total_time,
      total_marks |-> assessment.total_marks,
      lessons     |-> assessment.lessons,
      questions   |->
          [ s \in DOMAIN assessment.questions |->
              [ section_name |-> assessment.questions[s].section_name,
                description  |-> assessment.questions[s].description,
                questions    |->
                    [ q \in DOMAIN assessment.questions[s].questions |->
                        [ question_id    |-> assessment.questions[s].questions[q].question_id,
                          question_latex |-> assessment.questions[s].questions[q].question_latex,
                          marks          |-> assessment.questions[s].questions[q].marks ] ] ] ],
      last_updated |-> now ]

create_assessment(adb, gdb, type, assessment, new_id, env) ==
    IF question_list_empty(assessment)
    THEN Outcome(reraise("create", HTTP_400_BAD_REQUEST), <<>>, adb, gdb)
    ELSE
    LET data0 == assessment_data(assessment, env.utcnow) @@ ("_id" :> new_id)
    IN  IF env.question_paper = "raise"
        THEN Outcome(HTTPException("create", HTTP_500_INTERNAL_SERVER_ERROR),
                     <<"generate_assessment_document">>, adb, gdb)
        ELSE
        LET data == data0 @@ ("question_paper" :> env.question_paper)
            coll == AssessmentCollection(type)
        IN  Outcome(Success("create", [assessment_id |-> new_id]),
                    <<"generate_assessment_document", "insert_one">>,
                    [adb EXCEPT ![coll] = insert_one(@, data)], gdb)

--------------------------------------------------------------------------
(* list_assessments *)

\* a name too many on the allow-list
valid_filters_wide == {"course_id", "year", "month", "teacher"}

valid_filters == {"course_id", "year", "month"}

FilterNames == {"course_id", "year", "month", "teacher"}

\* the dicts with key k (a value of V) or without it
Optional(k, V) == {<<>>} \cup {k :> v : v \in V}

\* the ListAssessments objects: without a filters attribute, or with a dict
ListFilters ==
    {[has_filters |-> FALSE]} \cup
    { [has_filters |-> TRUE, filters |-> c @@ y @@ m @@ t] :
        c \in Optional("course_id", Courses), y \in Optional("year", {2024}),
        m \in Optional("month", {1, 2}), t \in Optional("teacher", {"x"}) }

\* hasattr(assessment_filter, 'filters') and assessment_filter.filters
filters_present(assessment_filter) ==
    assessment_filter.has_filters /\ DOMAIN assessment_filter.filters # {}

invalid_filters(assessment_filter) ==
    {f \in DOMAIN assessment_filter.filters : f \notin valid_filters}

\* the query builder and the aggregation run: the documents the filter selects
run_assessments_list_aggregation(coll, assessment_filter) ==
    LET f == IF assessment_filter.has_filters THEN assessment_filter.filters ELSE <<>>
        match(d) ==
            /\ "course_id" \in DOMAIN f => d.course = f["course_id"]
            /\ "year" \in DOMAIN f => d.start_date.year = f["year"]
            /\ "month" \in DOMAIN f => d.start_date.month = f["month"]
    IN  SetToSeq({ [id |-> id, name |-> coll[id].name] : id \in {i \in DOMAIN coll : match(coll[i])} })

list_assessments(adb, gdb, type, assessment_filter) ==
    IF filters_present(assessment_filter) /\ invalid_filters(assessment_filter) # {}
    THEN Outcome(reraise("list", HTTP_400_BAD_REQUEST), <<>>, adb, gdb)
    ELSE
    LET assessments_list ==
            run_assessments_list_aggregation(adb[AssessmentCollection(type)], assessment_filter)
    IN  Outcome(Success("list", [data |-> IF assessments_list = <<>> THEN <<>> ELSE assessments_list]),
                <<"generate_assessment_list_query", "run_assessments_list_aggregation">>,
                adb, gdb)

--------------------------------------------------------------------------
(* get_assessment_details *)

\* Course.get_question_library_collection
get_question_library_collection(course) == "lib"

\* the question documents of a library collection
QuestionLibrary(collection_name) ==
    { [_id |-> "q1", question_latex |-> "full1", answer |-> "x", marks |-> 9],
      [_id |-> "q2", question_latex |-> "full2", answer |-> "y"] }

create_signed_url(object_url) == <<"signed", object_url>>

\* find(collection, {"_id": {"$in": question_ids}})
find_questions(collection_name, question_ids) ==
    {d \in QuestionLibrary(collection_name) : d["_id"] \in question_ids}

\* question["id"] = str(question.pop('_id')); questions_data_map[question["id"]] = question
questions_data_map(questions_data) ==
    [ k \in {d["_id"] : d \in questions_data} |->
        LET d == CHOOSE e \in questions_data : e["_id"] = k
        IN  DictWithout(d, "_id") @@ ("id" :> k) ]

\* a lookup with a default (map.get): an unresolved stub is left as it is
merge_questions_lenient(questions, map) ==
    [ raised |-> FALSE,
      value |->
        [ s \in DOMAIN questions |->
            [ questions[s] EXCEPT !.questions =
                [ i \in DOMAIN questions[s].questions |->
                    LET question == questions[s].questions[i]
                    IN  IF question.question_id \in DOMAIN map
                        THEN DictUpdate(DictUpdate(question, map[question.question_id]),
                                        [marks |-> question.marks])
                        ELSE question ] ] ] ]

\* the merge loop: every stub takes the fields of its library document and keeps
\* its marks; a stub whose question_id is no key of the map raises KeyError
merge_questions(questions, map) ==
    IF \E s \in DOMAIN questions : \E i \in DOMAIN questions[s].questions :
           questions[s].questions[i].question_id \notin DOMAIN map
    THEN [raised |-> TRUE]
    ELSE [ raised |-> FALSE,
           value |->
             [ s \in DOMAIN questions |->
                 [ questions[s] EXCEPT !.questions =
                     [ i \in DOMAIN questions[s].questions |->
                         LET question == questions[s].questions[i]
                         IN  DictUpdate(DictUpdate(question, map[question.question_id]),
                                        [marks |-> question.marks]) ] ] ] ]

stub_ids(doc) ==
    Flatten([s \in DOMAIN doc.questions |->
                [q \in DOMAIN doc.questions[s].questions |-> doc.questions[s].questions[q].question_id]])

get_assessment_details(adb, gdb, type, assessment_id) ==
    LET err500(c) == Outcome(HTTPException("details", HTTP_500_INTERNAL_SERVER_ERROR), c, adb, gdb)
        coll == adb[AssessmentCollection(type)]
    IN
    IF ~ObjectIdValid(assessment_id) THEN err500(<<>>)
    ELSE IF ~Found(coll, ObjectId(assessment_id))
    THEN Outcome(reraise("details", HTTP_404_NOT_FOUND), <<"find_one">>, adb, gdb)
    ELSE
    LET doc == find_one(coll, ObjectId(assessment_id))
        data0 == DictWithout(doc, "_id") @@ ("id" :> doc["_id"])
        ids == stub_ids(doc)
    IN
    IF \E i \in DOMAIN ids : ~ObjectIdValid(ids[i]) THEN err500(<<"find_one">>)
    ELSE
    LET question_ids == {ObjectId(ids[i]) : i \in DOMAIN ids}
        data1 == [data0 EXCEPT !.question_paper = create_signed_url(doc.question_paper)]
        collection_name == get_question_library_collection(data1.course)
        map == questions_data_map(find_questions(collection_name, question_ids))
        merged == merge_questions(data1.questions, map)
        c == <<"find_one", "create_signed_url", "get_question_library_collection", "find">>
    IN
    IF merged.raised THEN err500(c)
    ELSE Outcome(Success("details", [data |-> [data1 EXCEPT !.questions = merged.value]]),
                 c, adb, gdb)

--------------------------------------------------------------------------
(* edit_assessment *)

\* update_one: the fields of update_data are set on the document the query selects
update_one(coll, id, update_data) ==
    IF id \in DOMAIN coll THEN [coll EXCEPT ![id] = DictUpdate(@, update_data)] ELSE coll

\* an update that leaves total_marks out
edit_update_data_partial(assessment, env) ==
    DictWithout(assessment_data(assessment, env.utcnow), "total_marks")
        @@ ("question_paper" :> env.question_paper)

edit_update_data(assessment, env) ==
    assessment_data(assessment, env.utcnow) @@ ("question_paper" :> env.question_paper)

\* the update result inspected: an update that matches no document is a 404
edit_assessment_checked(adb, gdb, type, assessment_id, assessment, env) ==
    LET err500(c) == Outcome(HTTPException("edit", HTTP_500_INTERNAL_SERVER_ERROR), c, adb, gdb)
        coll == AssessmentCollection(type)
    IN
    IF env.question_paper = "raise" THEN err500(<<"generate_assessment_document">>)
    ELSE IF ~ObjectIdValid(assessment_id) THEN err500(<<"generate_assessment_document">>)
    ELSE IF ~Found(adb[coll], ObjectId(assessment_id))
    THEN Outcome(reraise("edit", HTTP_404_NOT_FOUND),
                 <<"generate_assessment_document", "update_one">>, adb, gdb)
    ELSE Outcome(Success("edit", [assessment_id |-> assessment_id]),
                 <<"generate_assessment_document", "update_one">>,
                 [adb EXCEPT ![coll] = update_one(@, ObjectId(assessment_id),
                                                  edit_update_data(assessment, env))],
                 gdb)

edit_assessment(adb, gdb, type, assessment_id, assessment, env) ==
    LET err500(c) == Outcome(HTTPException("edit", HTTP_500_INTERNAL_SERVER_ERROR), c, adb, gdb)
        coll == AssessmentCollection(type)
    IN
    IF env.question_paper = "raise" THEN err500(<<"generate_assessment_document">>)
    ELSE IF ~ObjectIdValid(assessment_id) THEN err500(<<"generate_assessment_document">>)
    ELSE Outcome(Success("edit", [assessment_id |-> assessment_id]),
                 <<"generate_assessment_document", "update_one">>,
                 [adb EXCEPT ![coll] = update_one(@, ObjectId(assessment_id),
                                                  edit_update_data(assessment, env))],
                 gdb)

--------------------------------------------------------------------------
(* grade_assessment *)

GradeCollection(collection_name, type) == <<collection_name, type>>

GradeCollections ==
    {GradeCollection(get_question_library_collection(c), t) : c \in Courses, t \in AssessmentTypes}

GradeEntry(student, marks, status) == [student_id |-> student, marks |-> marks, status |-> status]

\* the marks lists of the grading requests
MarksLists ==
    { <<>>,
      <<GradeEntry("s1", "40", "fail")>>,
      <<GradeEntry("s2", "75", "pass")>>,
      <<GradeEntry("s1", "75", "pass"), GradeEntry("s2", "40", "fail")>>,
      <<GradeEntry("s2", "40", "fail"), GradeEntry("s2", "75", "pass")>> }

\* identifiers the grading requests carry (never parsed by the handler)
GradedIdStrings == {"a1", "a2"}

student_grades(assessment_id, course, marks) ==
    [ i \in DOMAIN marks |->
        DictUpdate([assessment_id |-> assessment_id, course_id |-> course], marks[i]) ]

\* one upsert per grade entry, keyed by assessment, course and student
SameGrade(d, g) ==
    /\ d.assessment_id = g.assessment_id
    /\ d.course_id = g.course_id
    /\ d.student_id = g.student_id

RECURSIVE bulk_write(_, _)
bulk_write(docs, operations) ==
    IF operations = <<>> THEN docs
    ELSE bulk_write({d \in docs : ~SameGrade(d, Head(operations))} \cup {Head(operations)},
                    Tail(operations))

grade_assessment(adb, gdb, type, assessment_id, course, marks) ==
    LET grades == student_grades(assessment_id, course, marks)
        coll == GradeCollection(get_question_library_collection(course), type)
    IN  Outcome(Success("grade", [data |-> [operations |-> Len(grades)]]),
                <<"get_question_library_collection", "generate_assessment_grading_query", "bulk_write">>,
                adb, [gdb EXCEPT ![coll] = bulk_write(@, grades)])

--------------------------------------------------------------------------
(* get_assessment_student_grades *)

RosterEntry(student) == [student_id |-> student, name |-> <<"name", student>>]

\* Course.get_course_students: the rosters a course can have
Rosters ==
    { <<>>,
      <<RosterEntry("s1")>>,
      <<RosterEntry("s2")>>,
      <<RosterEntry("s2"), RosterEntry("s1")>> }

\* the query without its course_id
matching_grades_any_course(docs, assessment_id, course) ==
    {d \in docs : d.assessment_id = assessment_id}

\* find(collection, {"assessment_id": ..., "course_id": ...}) / delete_many with that query
matching_grades(docs, assessment_id, course) ==
    {d \in docs : d.assessment_id = assessment_id /\ d.course_id = course}

\* marks defaulted to a value instead of None
placeholder_zero_marks(assessment_id, course, student) ==
    DictUpdate(DictUpdate([assessment_id |-> assessment_id, course_id |-> course], student),
               [marks |-> "0", status |-> Null])

placeholder(assessment_id, course, student) ==
    DictUpdate(DictUpdate([assessment_id |-> assessment_id, course_id |-> course], student),
               [marks |-> Null, status |-> Null])

\* graded students not taken off the mapping
all_students(students_data, graded) == students_data

\* the roster entries, in order, whose student has no grade document
RECURSIVE missing_students(_, _)
missing_students(students_data, graded) ==
    IF students_data = <<>> THEN <<>>
    ELSE (IF Head(students_data).student_id \in graded THEN <<>> ELSE <<Head(students_data)>>)
         \o missing_students(Tail(students_data), graded)

get_assessment_student_grades(adb, gdb, type, assessment_id, course, students_data) ==
    LET coll == GradeCollection(get_question_library_collection(course), type)
        found == SetToSeq(matching_grades(gdb[coll], assessment_id, course))
        c == <<"get_question_library_collection", "get_course_students", "find">>
    IN
    IF found = <<>>
    THEN Outcome(Success("student_grades",
                         [data |-> [i \in DOMAIN students_data |->
                                       placeholder(assessment_id, course, students_data[i])]]),
                 c, adb, gdb)
    ELSE
    LET missing == missing_students(students_data, {found[i].student_id : i \in DOMAIN found})
    IN  Outcome(Success("student_grades",
                        [data |-> found \o [i \in DOMAIN missing |->
                                               placeholder(assessment_id, course, missing[i])]]),
                c, adb, gdb)

--------------------------------------------------------------------------
(* delete_assessment *)

\* the collaborator call of a delete request that raises, if any
DeleteFaults == {"none", "delete_one", "get_question_library_collection", "delete_many"}

\* the deleted count never inspected
not_found_ignored(result) == FALSE

\* result["deleted_count"] == 0
not_found(result) == result.deleted_count = 0

delete_one(coll, id) == [f \in DOMAIN coll \ {id} |-> coll[f]]

deleted_message(result) ==
    <<"Assessment and associated", result.deleted_count, "student grade documents deleted successfully">>

\* the value of `result` when the response is built
delete_result(fault, result_one, result_many) ==
    IF fault = "delete_many" THEN result_one ELSE result_many

\* delete_many reporting its count without deleting
delete_grades_kept(adb1, gdb, type, assessment_id, course, fault, result_one) ==
    LET gcoll == GradeCollection(get_question_library_collection(course), type)
        doomed == matching_grades(gdb[gcoll], assessment_id, course)
        result_many == [deleted_count |-> Cardinality(doomed)]
    IN  Outcome(Success("delete", [message |-> deleted_message(delete_result(fault, result_one, result_many))]),
                <<"delete_one", "get_question_library_collection", "delete_many">>,
                adb1, gdb)

\* the handler from delete_many on: the grade documents of the query are
\* deleted, a failure is swallowed, and the response is built
delete_grades(adb1, gdb, type, assessment_id, course, fault, result_one) ==
    LET gcoll == GradeCollection(get_question_library_collection(course), type)
        doomed == matching_grades(gdb[gcoll], assessment_id, course)
        result_many == [deleted_count |-> Cardinality(doomed)]
        gdb1 == IF fault = "delete_many" THEN gdb ELSE [gdb EXCEPT ![gcoll] = @ \ doomed]
    IN  Outcome(Success("delete", [message |-> deleted_message(delete_result(fault, result_one, result_many))]),
                <<"delete_one", "get_question_library_collection", "delete_many">>,
                adb1, gdb1)

delete_assessment(adb, gdb, type, assessment_id, course, fault) ==
    LET err500(c, a) == Outcome(HTTPException("delete", HTTP_500_INTERNAL_SERVER_ERROR), c, a, gdb)
        acoll == AssessmentCollection(type)
    IN
    IF ~ObjectIdValid(assessment_id) THEN err500(<<>>, adb)
    ELSE IF fault = "delete_one" THEN err500(<<"delete_one">>, adb)
    ELSE
    LET id == ObjectId(assessment_id)
        result_one == [deleted_count |-> IF Found(adb[acoll], id) THEN 1 ELSE 0]
        adb1 == [adb EXCEPT ![acoll] = delete_one(@, id)]
    IN
    IF not_found(result_one)
    THEN Outcome(reraise("delete", HTTP_404_NOT_FOUND), <<"delete_one">>, adb, gdb)
    ELSE IF fault = "get_question_library_collection"
    THEN err500(<<"delete_one", "get_question_library_collection">>, adb1)
    ELSE
    delete_grades(adb1, gdb, type, assessment_id, course, fault, result_one)

--------------------------------------------------------------------------

Init ==
    /\ assessment_db = [t \in AssessmentTypes |-> <<>>]
    /\ grade_db = [c \in GradeCollections |-> {}]
    /\ req = [op |-> "none"]
    /\ resp = [op |-> "none", status |-> "none"]
    /\ calls = <<>>
    /\ deleting = [pc |-> "idle"]

Apply(o) ==
    /\ resp' = o.resp
    /\ calls' = o.calls
    /\ assessment_db' = o.assessment_db
    /\ grade_db' = o.grade_db
    /\ UNCHANGED deleting

CreateAssessment(payloads, environments) ==
    \E type \in AssessmentTypes, assessment \in payloads, env \in environments :
      \E new_id \in NewObjectIds \ DOMAIN assessment_db[AssessmentCollection(type)] :
        /\ req' = [op |-> "create", type |-> type, assessment |-> assessment]
        /\ Apply(create_assessment(assessment_db, grade_db, type, assessment, new_id, env))

ListAssessments ==
    \E type \in AssessmentTypes, assessment_filter \in ListFilters :
        /\ req' = [op |-> "list", type |-> type, assessment_filter |-> assessment_filter]
        /\ Apply(list_assessments(assessment_db, grade_db, type, assessment_filter))

GetAssessmentDetails ==
    \E type \in AssessmentTypes, assessment_id \in IdStrings :
        /\ req' = [op |-> "details", type |-> type, assessment_id |-> assessment_id]
        /\ Apply(get_assessment_details(assessment_db, grade_db, type, assessment_id))

EditAssessment ==
    \E type \in AssessmentTypes, assessment_id \in IdStrings,
       assessment \in Assessments, env \in Environments :
        /\ req' = [op |-> "edit", type |-> type, assessment_id |-> assessment_id,
                   assessment |-> assessment, env |-> env]
        /\ Apply(edit_assessment(assessment_db, grade_db, type, assessment_id, assessment, env))

GradeCount(gdb) == Cardinality(UNION {gdb[c] : c \in DOMAIN gdb})

GradeAssessment ==
    \E type \in AssessmentTypes, assessment_id \in GradedIdStrings,
       course \in Courses, marks \in MarksLists :
      LET o == grade_assessment(assessment_db, grade_db, type, assessment_id, course, marks)
      IN  /\ GradeCount(o.grade_db) <= MaxGrades
          /\ req' = [op |-> "grade", type |-> type, assessment_id |-> assessment_id,
                     course |-> course, marks |-> marks]
          /\ Apply(o)

GetAssessmentStudentGrades ==
    \E type \in AssessmentTypes, assessment_id \in GradedIdStrings,
       course \in Courses, students_data \in Rosters :
        /\ req' = [op |-> "student_grades", type |-> type, assessment_id |-> assessment_id,
                   course |-> course, students_data |-> students_data]
        /\ Apply(get_assessment_student_grades(assessment_db, grade_db, type,
                                               assessment_id, course, students_data))

DeleteAssessment ==
    \E type \in AssessmentTypes, assessment_id \in IdStrings,
       course \in Courses, fault \in DeleteFaults :
        /\ req' = [op |-> "delete", type |-> type, assessment_id |-> assessment_id,
                   course |-> course, fault |-> fault]
        /\ Apply(delete_assessment(assessment_db, grade_db, type, assessment_id, course, fault))

Next ==
    \/ CreateAssessment(Assessments, Environments)
    \/ ListAssessments
    \/ GetAssessmentDetails
    \/ EditAssessment
    \/ DeleteAssessment

Spec == Init /\ [][Next]_vars

\* the grade handlers, over assessments created from one payload
GradeNext ==
    \/ CreateAssessment(PlainAssessments, PlainEnvironments)
    \/ GradeAssessment
    \/ GetAssessmentStudentGrades
    \/ DeleteAssessment

GradeSpec == Init /\ [][GradeNext]_vars

\* grading requests that run beside a delete request
CascadeMarksLists ==
    { <<GradeEntry("s1", "40", "fail")>>,
      <<GradeEntry("s2", "75", "pass")>> }

CascadeGradeAssessment ==
    \E type \in AssessmentTypes, course \in Courses, marks \in CascadeMarksLists :
      LET o == grade_assessment(assessment_db, grade_db, type, "a1", course, marks)
      IN  /\ GradeCount(o.grade_db) <= MaxCascadeGrades
          /\ req' = [op |-> "grade", type |-> type, assessment_id |-> "a1",
                     course |-> course, marks |-> marks]
          /\ Apply(o)

\* a delete request up to and including the course lookup (lines 408-429):
\* it ends here with an error, or goes on to delete_many
DeleteOneStep ==
    \E type \in AssessmentTypes, assessment_id \in IdStrings,
       course \in Courses, fault \in DeleteFaults :
      LET o == delete_assessment(assessment_db, grade_db, type, assessment_id, course, fault)
          r == [op |-> "delete", type |-> type, assessment_id |-> assessment_id,
                course |-> course, fault |-> fault]
      IN  /\ deleting.pc # "delete_many"
          /\ req' = r
          /\ assessment_db' = o.assessment_db
          /\ grade_db' = grade_db
          /\ IF o.resp.status = "error"
             THEN /\ resp' = o.resp
                  /\ calls' = o.calls
                  /\ deleting' = [pc |-> "idle"]
             ELSE /\ resp' = [op |-> "delete", status |-> "pending"]
                  /\ calls' = <<"delete_one", "get_question_library_collection">>
                  /\ deleting' = [pc |-> "delete_many", request |-> r,
                                  result |-> [deleted_count |-> 1]]

\* the rest of the delete request (lines 432-448): delete_many and the response
DeleteManyStep ==
    /\ deleting.pc = "delete_many"
    /\ req' = deleting.request
    /\ LET o == delete_grades(assessment_db, grade_db, deleting.request.type,
                              deleting.request.assessment_id, deleting.request.course,
                              deleting.request.fault, deleting.result)
       IN  /\ resp' = o.resp
           /\ calls' = o.calls
           /\ assessment_db' = o.assessment_db
           /\ grade_db' = o.grade_db
    /\ deleting' = [deleting EXCEPT !.pc = "done"]

\* delete requests in two steps, with create and grade requests between them
CascadeNext ==
    \/ CreateAssessment(PlainAssessments, PlainEnvironments)
    \/ CascadeGradeAssessment
    \/ DeleteOneStep
    \/ DeleteManyStep

CascadeSpec == Init /\ [][CascadeNext]_vars

--------------------------------------------------------------------------
(* Properties *)

TheAssessments(adb, type) == adb[AssessmentCollection(type)]

TheGrades(gdb, type, course) == gdb[GradeCollection(get_question_library_collection(course), type)]

IsError(r, op, code) == r.op = op /\ r.status = "error" /\ r.status_code = code

IsSuccess(r, op) == r.op = op /\ r.status = "success"

\* C1: a create request whose top-level question list is empty ends in a 400,
\* calls neither the renderer nor insert_one, and leaves the assessment
\* collections as they were.
C1_EmptyQuestionListRejected ==
    [][ (req'.op = "create" /\ Len(req'.assessment.questions) = 0)
          => /\ IsError(resp', "create", 400)
             /\ calls' = <<>>
             /\ assessment_db' = assessment_db ]_vars

C1_Witness ==
    /\ req.op = "create"
    /\ Len(req.assessment.questions) = 0
    /\ IsError(resp, "create", 400)
    /\ calls = <<>>

\* C2: a list request whose filter dict has a key outside {course_id, year,
\* month} ends in a 400 before the query builder or the aggregation is called.
C2_UnknownFilterRejected ==
    (/\ req.op = "list"
     /\ req.assessment_filter.has_filters
     /\ \E k \in DOMAIN req.assessment_filter.filters : k \notin {"course_id", "year", "month"})
        => /\ IsError(resp, "list", 400)
           /\ calls = <<>>

C2_Witness ==
    /\ req.op = "list"
    /\ req.assessment_filter.has_filters
    /\ DOMAIN req.assessment_filter.filters = {"course_id", "teacher"}
    /\ IsError(resp, "list", 400)

\* C3: a delete request whose identifier matches no assessment document
\* (delete_one reports 0) ends in a 404, never calls delete_many and leaves
\* every grade document as it was.
C3_DeleteMissingIsNotFound ==
    [][ (/\ req'.op = "delete"
         /\ req'.fault # "delete_one"
         /\ ObjectIdValid(req'.assessment_id)
         /\ ObjectId(req'.assessment_id) \notin DOMAIN TheAssessments(assessment_db, req'.type))
          => /\ IsError(resp', "delete", 404)
             /\ calls' = <<"delete_one">>
             /\ grade_db' = grade_db
             /\ assessment_db' = assessment_db ]_vars

\* a 404 for a delete whose query matches stored grade documents
C3_Witness ==
    /\ req.op = "delete"
    /\ IsError(resp, "delete", 404)
    /\ \E d \in TheGrades(grade_db, req.type, req.course) :
          d.assessment_id = req.assessment_id /\ d.course_id = req.course

\* C4: a delete request for an existing assessment with N grade documents
\* matching {assessment_id, course_id}, none of its calls failing, removes the
\* assessment document, removes exactly those N grade documents and returns
\* success with a message that reports N.
C4_DeleteRemovesMatchingGrades ==
    [][ (/\ req'.op = "delete"
         /\ req'.fault = "none"
         /\ ObjectIdValid(req'.assessment_id)
         /\ ObjectId(req'.assessment_id) \in DOMAIN TheAssessments(assessment_db, req'.type))
          => LET id == ObjectId(req'.assessment_id)
                 before == TheAssessments(assessment_db, req'.type)
                 after == TheAssessments(assessment_db', req'.type)
                 grades == TheGrades(grade_db, req'.type, req'.course)
                 N == {d \in grades : d.assessment_id = req'.assessment_id
                                        /\ d.course_id = req'.course}
             IN  /\ IsSuccess(resp', "delete")
                 /\ DOMAIN after = DOMAIN before \ {id}
                 /\ \A i \in DOMAIN after : after[i] = before[i]
                 /\ TheGrades(grade_db', req'.type, req'.course) = grades \ N
                 /\ resp'.message[2] = Cardinality(N) ]_vars

\* a successful delete that removed grade documents and left others
C4_Witness ==
    /\ req.op = "delete"
    /\ req.fault = "none"
    /\ IsSuccess(resp, "delete")
    /\ resp.message[2] >= 1
    /\ \E d \in TheGrades(grade_db, req.type, req.course) :
          d.assessment_id = req.assessment_id /\ d.course_id # req.course

\* C5: when delete_many raises after the assessment document was deleted, the
\* handler returns success and the count in its message is 0.
C5_FailedGradeDeletionReportsZero ==
    (/\ req.op = "delete"
     /\ req.fault = "delete_many"
     /\ calls = <<"delete_one", "get_question_library_collection", "delete_many">>)
        => /\ IsSuccess(resp, "delete")
           /\ resp.message[2] = 0

StoredGrades == {d \in TheGrades(grade_db, req.type, req.course) :
                    d.assessment_id = req.assessment_id /\ d.course_id = req.course}

NoStudentTwice(data) ==
    \A i, j \in DOMAIN data : data[i].student_id = data[j].student_id => i = j

\* C6 as stated: with a non-empty set of stored grade documents, the entries
\* returned are as many as the roster has students and no student is there twice.
C6_OneEntryPerRosterStudent ==
    (req.op = "student_grades" /\ StoredGrades # {})
        => /\ IsSuccess(resp, "student_grades")
           /\ Len(resp.data) = Len(req.students_data)
           /\ NoStudentTwice(resp.data)

\* C6 amended: with a non-empty set of stored grade documents, the entries
\* returned are every stored document once and one placeholder, with null marks
\* and status, for every roster student without a document; their number is the
\* number of stored documents plus the number of ungraded roster students, and
\* no student is there twice.
C6_StoredPlusPlaceholders ==
    (req.op = "student_grades" /\ StoredGrades # {})
        => LET data == resp.data
               roster == req.students_data
               graded == {d.student_id : d \in StoredGrades}
               ungraded == {j \in DOMAIN roster : roster[j].student_id \notin graded}
           IN  /\ IsSuccess(resp, "student_grades")
               /\ \A d \in StoredGrades : Cardinality({i \in DOMAIN data : data[i] = d}) = 1
               /\ \A j \in ungraded :
                     Cardinality({i \in DOMAIN data :
                        data[i] = [ assessment_id |-> req.assessment_id,
                                    course_id |-> req.course,
                                    student_id |-> roster[j].student_id,
                                    name |-> roster[j].name,
                                    marks |-> Null, status |-> Null ]}) = 1
               /\ Len(data) = Cardinality(StoredGrades) + Cardinality(ungraded)
               /\ NoStudentTwice(data)

\* one student graded, the other roster student not
C6_Witness ==
    /\ req.op = "student_grades"
    /\ Cardinality(StoredGrades) = 1
    /\ Len(req.students_data) = 2
    /\ Len(resp.data) = 2
    /\ \E i \in DOMAIN resp.data : resp.data[i].marks = Null
    /\ \E i \in DOMAIN resp.data : resp.data[i].marks # Null

\* C7: with no grade document stored for the assessment and course, the
\* response is a success with one placeholder per roster student, in roster
\* order, carrying the assessment identifier, the course, the roster entry's
\* fields and null marks and status.
C7_AllPlaceholders ==
    (req.op = "student_grades" /\ StoredGrades = {})
        => /\ IsSuccess(resp, "student_grades")
           /\ Len(resp.data) = Len(req.students_data)
           /\ \A i \in DOMAIN req.students_data :
                 resp.data[i] = [ assessment_id |-> req.assessment_id,
                                  course_id |-> req.course,
                                  student_id |-> req.students_data[i].student_id,
                                  name |-> req.students_data[i].name,
                                  marks |-> Null, status |-> Null ]

\* a roster of two, nothing graded for this assessment, grades of another stored
C7_Witness ==
    /\ req.op = "student_grades"
    /\ StoredGrades = {}
    /\ TheGrades(grade_db, req.type, req.course) # {}
    /\ Len(req.students_data) = 2
    /\ Len(resp.data) = 2

AssessmentFields ==
    { "_id", "name", "course", "start_date", "end_date", "total_time", "total_marks",
      "lessons", "questions", "last_updated", "question_paper" }

\* C8: a successful edit of an existing assessment leaves its document with
\* every field taken from the request (name, course, dates, total time, total
\* marks, lessons, sections with their questions), the clock reading and the
\* newly rendered document reference; only the identifier is kept, and no
\* other document changes.
C8_EditReplacesEveryField ==
    [][ (/\ req'.op = "edit"
         /\ IsSuccess(resp', "edit")
         /\ ObjectId(req'.assessment_id) \in DOMAIN TheAssessments(assessment_db, req'.type))
          => LET id == ObjectId(req'.assessment_id)
                 before == TheAssessments(assessment_db, req'.type)
                 after == TheAssessments(assessment_db', req'.type)
                 a == req'.assessment
             IN  /\ DOMAIN after = DOMAIN before
                 /\ \A i \in DOMAIN after \ {id} : after[i] = before[i]
                 /\ DOMAIN after[id] = AssessmentFields
                 /\ after[id]["_id"] = id
                 /\ after[id].name = a.name
                 /\ after[id].course = a.course
                 /\ after[id].start_date = a.start_date
                 /\ after[id].end_date = a.end_date
                 /\ after[id].total_time = a.total_time
                 /\ after[id].total_marks = a.total_marks
                 /\ after[id].lessons = a.lessons
                 /\ after[id].questions = a.questions
                 /\ after[id].last_updated = req'.env.utcnow
                 /\ after[id].question_paper = req'.env.question_paper ]_vars

\* a document after a successful edit sent under the upper-case identifier
C8_Witness ==
    /\ req.op = "edit"
    /\ IsSuccess(resp, "edit")
    /\ req.assessment_id = "A1"
    /\ "a1" \in DOMAIN TheAssessments(assessment_db, req.type)
    /\ LET d == TheAssessments(assessment_db, req.type)["a1"]
       IN  /\ d.name = "final"
           /\ d.total_marks = 100
           /\ d.question_paper = "doc2"
           /\ Len(d.questions) = 2

\* C9: a details request for an identifier with no assessment document ends in
\* a 404 after the one find_one: no signed URL, no course lookup, no question
\* fetch.
C9_DetailsMissingIsNotFound ==
    (/\ req.op = "details"
     /\ ObjectIdValid(req.assessment_id)
     /\ ObjectId(req.assessment_id) \notin DOMAIN TheAssessments(assessment_db, req.type))
        => /\ IsError(resp, "details", 404)
           /\ calls = <<"find_one">>

\* a 404 while another assessment is stored
C9_Witness ==
    /\ req.op = "details"
    /\ IsError(resp, "details", 404)
    /\ TheAssessments(assessment_db, req.type) # <<>>

\* the question identifiers of the library of a course
LibraryIds(course) == {d["_id"] : d \in QuestionLibrary(get_question_library_collection(course))}

HasUnknownQuestion(doc) ==
    \E s \in DOMAIN doc.questions : \E i \in DOMAIN doc.questions[s].questions :
        /\ ObjectIdValid(doc.questions[s].questions[i].question_id)
        /\ ObjectId(doc.questions[s].questions[i].question_id) \notin LibraryIds(doc.course)

\* C10: a details request for an assessment one of whose question identifiers
\* is not among the library documents ends in a 500, never in a success.
C10_UnknownQuestionIsError ==
    (/\ req.op = "details"
     /\ ObjectIdValid(req.assessment_id)
     /\ ObjectId(req.assessment_id) \in DOMAIN TheAssessments(assessment_db, req.type)
     /\ HasUnknownQuestion(TheAssessments(assessment_db, req.type)[ObjectId(req.assessment_id)]))
        => IsError(resp, "details", 500)

\* the 500 comes after the library was fetched, the other questions resolving
C10_Witness ==
    /\ req.op = "details"
    /\ IsError(resp, "details", 500)
    /\ calls = <<"find_one", "create_signed_url", "get_question_library_collection", "find">>
    /\ LET d == TheAssessments(assessment_db, req.type)[ObjectId(req.assessment_id)]
       IN  HasUnknownQuestion(d) /\ Len(d.questions) = 2

\* C11: an edit request whose identifier matches no assessment document, the
\* renderer not failing, calls the renderer, then update_one once, and returns
\* success with the identifier as sent; no document is created or changed.
C11_EditMissingIsSuccess ==
    [][ (/\ req'.op = "edit"
         /\ req'.env.question_paper # "raise"
         /\ ObjectIdValid(req'.assessment_id)
         /\ ObjectId(req'.assessment_id) \notin DOMAIN TheAssessments(assessment_db, req'.type))
          => /\ IsSuccess(resp', "edit")
             /\ resp'.assessment_id = req'.assessment_id
             /\ calls' = <<"generate_assessment_document", "update_one">>
             /\ assessment_db' = assessment_db ]_vars

\* a successful edit for an absent identifier while another assessment is stored
C11_Witness ==
    /\ req.op = "edit"
    /\ IsSuccess(resp, "edit")
    /\ ObjectId(req.assessment_id) \notin DOMAIN TheAssessments(assessment_db, req.type)
    /\ TheAssessments(assessment_db, req.type) # <<>>
    /\ calls = <<"generate_assessment_document", "update_one">>

\* C12 as stated: once a delete request has returned success, its delete_many
\* not failing, no grade document with the identifier of that request is stored.
C12_NoGradeOfDeletedAssessment ==
    (deleting.pc = "done" /\ deleting.request.fault = "none")
        => \A c \in DOMAIN grade_db : \A d \in grade_db[c] :
              d.assessment_id # deleting.request.assessment_id

\* C12 amended: the delete_many step of a delete request, when it does not
\* fail, removes the grade documents stored at that moment whose assessment_id
\* and course_id are those of the request, and no other document; the request
\* then returns success with their number.
C12_DeleteManyRemovesMatching ==
    [][ (deleting.pc = "delete_many" /\ deleting'.pc = "done"
         /\ deleting.request.fault = "none")
          => LET r == deleting.request
                 grades == TheGrades(grade_db, r.type, r.course)
                 N == {d \in grades : d.assessment_id = r.assessment_id
                                        /\ d.course_id = r.course}
             IN  /\ TheGrades(grade_db', r.type, r.course) = grades \ N
                 /\ \A c \in DOMAIN grade_db :
                       c # GradeCollection(get_question_library_collection(r.course), r.type)
                          => grade_db'[c] = grade_db[c]
                 /\ assessment_db' = assessment_db
                 /\ IsSuccess(resp', "delete")
                 /\ resp'.message[2] = Cardinality(N) ]_vars

\* a delete request that has returned after removing a grade document upserted
\* between its two steps, a grade document of the other course remaining
C12_Witness ==
    /\ deleting.pc = "done"
    /\ deleting.request.fault = "none"
    /\ IsSuccess(resp, "delete")
    /\ resp.message[2] = 1
    /\ \E d \in TheGrades(grade_db, req.type, req.course) :
          d.assessment_id = req.assessment_id /\ d.course_id # req.course

====
